---------------------------- MODULE Spec2Model ----------------------------
(***************************************************************************)
(* AnsiColorManager (ansicolormanager.py) and demo.py, which prints its    *)
(* colours and palettes.  A caller has a variable holding a Color of the   *)
(* 6x6x6 ANSI cube and calls the class's operations on it: the             *)
(* constructor, ansi, get_contrasting_color, get_complementary_color,      *)
(* print, which makes three calls of its own, and generate_color_palette,  *)
(* whose jitter-fill loop runs one iteration per step.  A call is one      *)
(* step and what the caller does with its result is another.               *)
(*                                                                         *)
(* Values are tagged records: a Color is [type, r, g, b, color_code], None *)
(* is [type |-> "None"], a raised ValueError is [type |-> "ValueError"],   *)
(* an int result is [type, code] and a list result is [type, items],       *)
(* where items is the bag of the list's entries: the list up to the order  *)
(* of its entries, which for list(palette_set) is the enumeration order of *)
(* a Python set and is left unspecified by the language.                   *)
(*                                                                         *)
(* Python floats are modelled by exact rationals <<n, d>> in lowest terms  *)
(* with d > 0.  The float operations the model covers are exact or agree   *)
(* with the exact value on every input drawn here: percentage / 100 for    *)
(* the percentages of Percentages is a dyadic number, and the luminosity   *)
(* of no cube colour equals the threshold 2.5.                             *)
(*                                                                         *)
(* Five specifications:  Spec is a caller making any sequence of calls of   *)
(* the class; FairSpec is one call of generate_color_palette with the      *)
(* default size under fair random draws; CubeSpec is a call of             *)
(* generate_color_palette asked for the default size or the whole cube;    *)
(* GridsSpec is the three functions of demo.py that print the system       *)
(* colours, the cube and the grayscale colours, each run statement by      *)
(* statement.  DemoSpec is the whole of demo.py: GridsSpec and             *)
(* demonstrate_palettes.                                                   *)
(***************************************************************************)
EXTENDS Integers, Sequences, FiniteSets, Bags

VARIABLES
    pc,           \* "idle": the caller is between calls; "jitter": inside
                  \* generate_color_palette, at the while test of line 163;
                  \* "print_background", "print_foreground": inside print,
                  \* before self.ansi() and before contrast_color.ansi();
                  \* "returned": the caller's call has returned or raised
    color,        \* the caller's variable holding a Color (None before the
                  \* first one): color, base_color in demo.py
    assigned,     \* whether the caller has assigned color_code of that Color
                  \* after constructing it (demo.py lines 12 and 24)
    contrast_color, \* print's local variable (None outside of print)
    call,         \* the last call made, in progress or returned:
                  \* [op, self, args]
    ret,          \* what that call returned or raised (None while running)
    palette_set,  \* generate_color_palette's local set ({} outside of it)
    line,         \* the statement of demo.py that is being run ("main"
                  \* between its functions)
    count,        \* the number of iterations the loops of the demo.py
                  \* function being run have completed
    base_colors,  \* base_colors of demonstrate_palettes; its base_color
                  \* is base_colors[count + 1] while an iteration runs
    palette,      \* palette of demonstrate_palettes, as the bag of its
                  \* entries
    unvisited     \* the entries of palette that the loop of
                  \* visualize_palette_in_terminal has yet to take

\* demo.py's variables.
demo == <<line, count, base_colors, palette, unvisited>>

vars == <<pc, color, assigned, contrast_color, call, ret, palette_set, demo>>

---------------------------------------------------------------------------
(* Bounds of the model *)

\* Constructor arguments range over -ChannelMargin .. MaxChannel + ChannelMargin.
ChannelMargin == 1

\* palette_size ranges over 0 .. MaxSmallSize and the default size.
MaxSmallSize == 2

\* CubeSpec takes the base colours with channels in 0 .. MaxBaseChannel.
MaxBaseChannel == 1

---------------------------------------------------------------------------
(* Program constants *)

MaxChannel == 5

DefaultPaletteSize == 16

\* The number of colours of the cube.
CubeSize == (MaxChannel + 1) * (MaxChannel + 1) * (MaxChannel + 1)

None == [type |-> "None"]

ValueError == [type |-> "ValueError"]

NoCall == [op |-> "none", self |-> None, args |-> <<>>]

ChannelArgs == (0 - ChannelMargin) .. (MaxChannel + ChannelMargin)

Percentages == {-100, 0, 50, 100, 200}

PaletteSizes == (0 .. MaxSmallSize) \cup {DefaultPaletteSize}

---------------------------------------------------------------------------
(* Exact rational arithmetic, standing for Python's floats *)

Abs(n) == IF n < 0 THEN 0 - n ELSE n

RECURSIVE GCD(_, _)
GCD(a, b) == IF b = 0 THEN a ELSE GCD(b, a % b)

Rat(n, d) ==
    LET s == IF d < 0 THEN 0 - 1 ELSE 1
        g == GCD(Abs(n), Abs(d))
    IN  IF n = 0 THEN <<0, 1>> ELSE <<(s * n) \div g, (s * d) \div g>>

RInt(n) == <<n, 1>>

RAdd(x, y) == Rat(x[1] * y[2] + y[1] * x[2], x[2] * y[2])

RSub(x, y) == Rat(x[1] * y[2] - y[1] * x[2], x[2] * y[2])

RMul(x, y) == Rat(x[1] * y[1], x[2] * y[2])

RDiv(x, y) == Rat(x[1] * y[2], x[2] * y[1])

RLt(x, y) == x[1] * y[2] < y[1] * x[2]

RLe(x, y) == x[1] * y[2] <= y[1] * x[2]

RMax(x, y) == IF RLt(x, y) THEN y ELSE x

RMin(x, y) == IF RLt(y, x) THEN y ELSE x

\* x % 1.0: the fractional part, in [0, 1) for every sign of x.
RMod1(x) == Rat(x[1] % x[2], x[2])

\* int(x): truncation toward zero.
RTrunc(x) == IF x[1] >= 0 THEN x[1] \div x[2] ELSE 0 - ((0 - x[1]) \div x[2])

Max(a, b) == IF a >= b THEN a ELSE b

Min(a, b) == IF a <= b THEN a ELSE b

---------------------------------------------------------------------------
(* class AnsiColorManager.Color *)

\* The range check with the blue channel forgotten.
ValidChannelsNoBlue(r, g, b) ==
    0 <= r /\ r <= MaxChannel /\ 0 <= g /\ g <= MaxChannel

\* The range check of __init__.
ValidChannels(r, g, b) ==
    0 <= r /\ r <= MaxChannel /\ 0 <= g /\ g <= MaxChannel
        /\ 0 <= b /\ b <= MaxChannel

\* The index with the weights of red and green exchanged.
color_code_swapped(r, g, b) == 16 + (r * 6) + (g * 36) + b

\* The index line 26 stores in self.color_code.
color_code(r, g, b) == 16 + (r * 36) + (g * 6) + b

\* Color(r, g, b): the new object, or the ValueError __init__ raises.
Color(r, g, b) ==
    IF ValidChannels(r, g, b)
        THEN [type |-> "Color", r |-> r, g |-> g, b |-> b,
              color_code |-> color_code(r, g, b)]
        ELSE ValueError

ansi(self) == self.color_code

\* The luminosity with the weights of red and green exchanged.
get_luminosity_swapped(self) ==
    RAdd(RAdd(RMul(Rat(7152, 10000), RInt(self.r)),
              RMul(Rat(2126, 10000), RInt(self.g))),
         RMul(Rat(722, 10000), RInt(self.b)))

\* 0.2126 * r + 0.7152 * g + 0.0722 * b
get_luminosity(self) ==
    RAdd(RAdd(RMul(Rat(2126, 10000), RInt(self.r)),
              RMul(Rat(7152, 10000), RInt(self.g))),
         RMul(Rat(722, 10000), RInt(self.b)))

get_contrasting_color(self, percentage) ==
    LET f == Rat(percentage, 100)
        darker(c) == RMax(RInt(0), RSub(RInt(c), RMul(RInt(c), f)))
        lighter(c) ==
            RMin(RInt(MaxChannel),
                 RAdd(RInt(c), RMul(RInt(MaxChannel - c), f)))
    IN  IF RLe(Rat(25, 10), get_luminosity(self))
            THEN Color(RTrunc(darker(self.r)), RTrunc(darker(self.g)),
                       RTrunc(darker(self.b)))
            ELSE Color(RTrunc(lighter(self.r)), RTrunc(lighter(self.g)),
                       RTrunc(lighter(self.b)))

get_complementary_color(self) ==
    Color(MaxChannel - self.r, MaxChannel - self.g, MaxChannel - self.b)

---------------------------------------------------------------------------
(* colorsys, as calculate_analogous uses it *)

RMax3(a, b, c) == RMax(a, RMax(b, c))

RMin3(a, b, c) == RMin(a, RMin(b, c))

\* colorsys.rgb_to_hls: <<h, l, s>>.
rgb_to_hls(r, g, b) ==
    LET maxc == RMax3(r, g, b)
        minc == RMin3(r, g, b)
        sumc == RAdd(maxc, minc)
        rangec == RSub(maxc, minc)
        l == RDiv(sumc, RInt(2))
        s == IF RLe(l, Rat(1, 2))
                THEN RDiv(rangec, sumc)
                ELSE RDiv(rangec, RSub(RSub(RInt(2), maxc), minc))
        rc == RDiv(RSub(maxc, r), rangec)
        gc == RDiv(RSub(maxc, g), rangec)
        bc == RDiv(RSub(maxc, b), rangec)
        h == IF r = maxc THEN RSub(bc, gc)
             ELSE IF g = maxc THEN RSub(RAdd(RInt(2), rc), bc)
             ELSE RSub(RAdd(RInt(4), gc), rc)
    IN  IF minc = maxc
            THEN <<RInt(0), l, RInt(0)>>
            ELSE <<RMod1(RDiv(h, RInt(6))), l, s>>

\* colorsys._v
hls_v(m1, m2, hue0) ==
    LET hue == RMod1(hue0)
    IN  IF RLt(hue, Rat(1, 6))
            THEN RAdd(m1, RMul(RMul(RSub(m2, m1), hue), RInt(6)))
        ELSE IF RLt(hue, Rat(1, 2)) THEN m2
        ELSE IF RLt(hue, Rat(2, 3))
            THEN RAdd(m1, RMul(RMul(RSub(m2, m1), RSub(Rat(2, 3), hue)),
                               RInt(6)))
        ELSE m1

\* colorsys.hls_to_rgb: <<r, g, b>>, each in 0 .. 1.
hls_to_rgb(h, l, s) ==
    LET m2 == IF RLe(l, Rat(1, 2))
                 THEN RMul(l, RAdd(RInt(1), s))
                 ELSE RSub(RAdd(l, s), RMul(l, s))
        m1 == RSub(RMul(RInt(2), l), m2)
    IN  IF s = RInt(0)
            THEN <<l, l, l>>
            ELSE <<hls_v(m1, m2, RAdd(h, Rat(1, 3))), hls_v(m1, m2, h),
                   hls_v(m1, m2, RSub(h, Rat(1, 3)))>>

---------------------------------------------------------------------------
(* AnsiColorManager.generate_color_palette *)

\* One component hls_to_rgb returned, as the comprehension of lines 123-126
\* turns it into a channel: int(a * 5 / 51).
AnalogousChannel(a) == RTrunc(RDiv(RMul(a, RInt(5)), RInt(51)))

\* The list calculate_analogous returns.
calculate_analogous(c) ==
    LET r == Rat(c.r * 51, 255)
        g == Rat(c.g * 51, 255)
        b == Rat(c.b * 51, 255)
        hls == rgb_to_hls(r, g, b)
        analogous1 ==
            hls_to_rgb(RMod1(RAdd(hls[1], Rat(1, 12))), hls[2], hls[3])
        analogous2 ==
            hls_to_rgb(RMod1(RSub(hls[1], Rat(1, 12))), hls[2], hls[3])
    IN  << Color(AnalogousChannel(analogous1[1]),
                 AnalogousChannel(analogous1[2]),
                 AnalogousChannel(analogous1[3])),
           Color(AnalogousChannel(analogous2[1]),
                 AnalogousChannel(analogous2[2]),
                 AnalogousChannel(analogous2[3])) >>

\* The list calculate_shades_and_tints returns.
calculate_shades_and_tints(c) ==
    LET r == c.r
        g == c.g
        b == c.b
    IN  << Color(Max(0, r \div 2), Max(0, g \div 2), Max(0, b \div 2)),
           Color(Min(5, r + (5 - r) \div 2), Min(5, g + (5 - g) \div 2),
                 Min(5, b + (5 - b) \div 2)),
           Color(Max(0, r \div 3), Max(0, g \div 3), Max(0, b \div 3)),
           Color(Min(5, r + (5 - r) \div 3), Min(5, g + (5 - g) \div 3),
                 Min(5, b + (5 - b) \div 3)) >>

\* The neutrals with a fourth grey added.
add_neutral_colors_four ==
    << Color(5, 5, 5), Color(1, 1, 1), Color(3, 3, 3), Color(2, 2, 2) >>

\* The list add_neutral_colors returns.
add_neutral_colors == << Color(5, 5, 5), Color(1, 1, 1), Color(3, 3, 3) >>

\* The list more_variations of lines 152-159.
more_variations(base_color) ==
    << Color(Min(5, base_color.r + 1), base_color.g, base_color.b),
       Color(base_color.r, Min(5, base_color.g + 1), base_color.b),
       Color(base_color.r, base_color.g, Min(5, base_color.b + 1)),
       Color(Max(0, base_color.r - 1), base_color.g, base_color.b),
       Color(base_color.r, Max(0, base_color.g - 1), base_color.b),
       Color(base_color.r, base_color.g, Max(0, base_color.b - 1)) >>

Range(seq) == {seq[i] : i \in DOMAIN seq}

\* palette_set as lines 145-160 leave it, before the jitter loop; a
\* ValueError among its members stands for a constructor call that raised.
InitialPaletteSet(base_color) ==
    {base_color, get_complementary_color(base_color)}
        \cup Range(calculate_analogous(base_color))
        \cup Range(add_neutral_colors)
        \cup Range(calculate_shades_and_tints(base_color))
        \cup Range(more_variations(base_color))

\* random.choice([-1, 1])
JitterSigns == {0 - 1, 1}

\* random.randint(1, 1): a jitter of one step only.
OneMagnitude == {1}

\* random.randint(1, 2)
JitterMagnitudes == {1, 2}

\* One draw of the loop body: the sign and the three magnitudes.
JitterDraws ==
    JitterSigns \X JitterMagnitudes \X JitterMagnitudes \X JitterMagnitudes

\* new_color without the wrap-around of % 6.
new_color_clamped(base_color, jitter, m1, m2, m3) ==
    Color(base_color.r + jitter * m1, base_color.g + jitter * m2,
          base_color.b + jitter * m3)

\* new_color of lines 165-169, for one draw of the sign and the magnitudes.
new_color(base_color, jitter, m1, m2, m3) ==
    Color((base_color.r + jitter * m1) % 6, (base_color.g + jitter * m2) % 6,
          (base_color.b + jitter * m3) % 6)

\* The while test leaving the loop one colour early.
LoopTestOffByOne(set, palette_size) == Cardinality(set) < palette_size - 1

\* The while test of line 163.
LoopTest(set, palette_size) == Cardinality(set) < palette_size

RECURSIVE KSubsets(_, _)
\* The subsets of S that have k elements.
KSubsets(S, k) ==
    IF k = 0 THEN {{}}
    ELSE IF k > Cardinality(S) THEN {}
    ELSE IF k = Cardinality(S) THEN {S}
    ELSE LET x == CHOOSE y \in S : TRUE
         IN  KSubsets(S \ {x}, k) \cup {T \cup {x} : T \in KSubsets(S \ {x}, k - 1)}

\* list(palette_set)[:palette_size] of line 172, each possible list given
\* as the bag of its entries.  The order in which a Python set enumerates
\* its members is unspecified, so any palette_size of them may come first;
\* the whole list when it is no longer than that.  list() gives each member
\* of the set once.
Slice(set, palette_size) ==
    IF palette_size >= Cardinality(set)
        THEN {SetToBag(set)}
        ELSE {SetToBag(K) : K \in KSubsets(set, palette_size)}

---------------------------------------------------------------------------
(* The calls *)

IsColor(v) == v.type = "Color"

Returned(op, self, args, value) ==
    /\ pc' = "returned"
    /\ call' = [op |-> op, self |-> self, args |-> args]
    /\ ret' = value
    /\ palette_set' = {}
    /\ UNCHANGED <<color, assigned, contrast_color, demo>>

\* AnsiColorManager.Color(r, g, b)
Construct(r, g, b) ==
    /\ pc = "idle"
    /\ Returned("Color", None, <<r, g, b>>, Color(r, g, b))

\* color.ansi()
Ansi ==
    /\ pc = "idle"
    /\ IsColor(color)
    /\ Returned("ansi", color, <<>>, [type |-> "int", code |-> ansi(color)])

\* color.get_contrasting_color(percentage)
Contrast(percentage) ==
    /\ pc = "idle"
    /\ IsColor(color)
    /\ Returned("get_contrasting_color", color, <<percentage>>,
                get_contrasting_color(color, percentage))

\* color.get_complementary_color()
Complement ==
    /\ pc = "idle"
    /\ IsColor(color)
    /\ Returned("get_complementary_color", color, <<>>,
                get_complementary_color(color))

\* color.print(text, percentage), up to line 97:
\* contrast_color = self.get_contrasting_color(percentage)
PrintCall(percentage) ==
    /\ pc = "idle"
    /\ IsColor(color)
    /\ LET contrast == get_contrasting_color(color, percentage)
       IN  IF contrast = ValueError
               THEN Returned("get_contrasting_color", color, <<percentage>>,
                             ValueError)
               ELSE /\ pc' = "print_background"
                    /\ contrast_color' = contrast
                    /\ call' = [op |-> "get_contrasting_color",
                                self |-> color, args |-> <<percentage>>]
                    /\ ret' = contrast
                    /\ UNCHANGED <<color, assigned, palette_set, demo>>

\* self.ansi() of line 99.
PrintBackground ==
    /\ pc = "print_background"
    /\ pc' = "print_foreground"
    /\ call' = [op |-> "ansi", self |-> color, args |-> <<>>]
    /\ ret' = [type |-> "int", code |-> ansi(color)]
    /\ UNCHANGED <<color, assigned, contrast_color, palette_set, demo>>

\* contrast_color.ansi() of line 99; the text is written and print returns.
PrintForeground ==
    /\ pc = "print_foreground"
    /\ Returned("ansi", contrast_color, <<>>,
                [type |-> "int", code |-> ansi(contrast_color)])

\* generate_color_palette(color, palette_size), up to the while loop.
GenerateCall(palette_size) ==
    /\ pc = "idle"
    /\ IsColor(color)
    /\ LET first == InitialPaletteSet(color)
       IN  IF ValueError \in first
               THEN Returned("generate_color_palette", color,
                             <<palette_size>>, ValueError)
               ELSE /\ pc' = "jitter"
                    /\ call' = [op |-> "generate_color_palette",
                                self |-> color, args |-> <<palette_size>>]
                    /\ ret' = None
                    /\ palette_set' = first
                    /\ UNCHANGED <<color, assigned, contrast_color, demo>>

\* One iteration of the while loop of lines 163-170.
JitterStep(jitter, m1, m2, m3) ==
    /\ pc = "jitter"
    /\ LoopTest(palette_set, call.args[1])
    /\ LET new == new_color(call.self, jitter, m1, m2, m3)
       IN  IF new = ValueError
               THEN Returned(call.op, call.self, call.args, ValueError)
               ELSE /\ palette_set' = palette_set \cup {new}
                    /\ UNCHANGED <<pc, color, assigned, contrast_color,
                                   call, ret, demo>>

\* The loop is left and line 172 returns the list.
GenerateReturn ==
    /\ pc = "jitter"
    /\ ~LoopTest(palette_set, call.args[1])
    /\ \E items \in Slice(palette_set, call.args[1]) :
           Returned(call.op, call.self, call.args,
                    [type |-> "list", items |-> items])

\* The caller's statement is over: the call and its result are behind it
\* and the frames of the class's functions are gone.
StatementDone ==
    /\ pc = "returned"
    /\ pc' = "idle"
    /\ contrast_color' = None
    /\ call' = NoCall
    /\ ret' = None
    /\ palette_set' = {}

\* The caller assigns the Color it was given to its variable.
CallerBinds ==
    /\ StatementDone
    /\ IsColor(ret)
    /\ color' = ret
    /\ assigned' = FALSE
    /\ UNCHANGED demo

\* The caller goes on with the Color its variable holds.
CallerContinues ==
    /\ StatementDone
    /\ UNCHANGED <<color, assigned, demo>>

\* No function of demo.py is running.
NoDemo ==
    /\ line = "main"
    /\ count = 0
    /\ base_colors = <<>>
    /\ palette = EmptyBag
    /\ unvisited = EmptyBag

Init ==
    /\ pc = "idle"
    /\ color = None
    /\ assigned = FALSE
    /\ contrast_color = None
    /\ call = NoCall
    /\ ret = None
    /\ palette_set = {}
    /\ NoDemo

Jitter == \E d \in JitterDraws : JitterStep(d[1], d[2], d[3], d[4])

Next ==
    \/ \E r \in ChannelArgs, g \in ChannelArgs, b \in ChannelArgs :
           Construct(r, g, b)
    \/ Ansi
    \/ \E percentage \in Percentages : Contrast(percentage)
    \/ Complement
    \/ \E percentage \in Percentages : PrintCall(percentage)
    \/ PrintBackground
    \/ PrintForeground
    \/ \E palette_size \in PaletteSizes : GenerateCall(palette_size)
    \/ Jitter
    \/ GenerateReturn
    \/ CallerBinds
    \/ CallerContinues

Spec == Init /\ [][Next]_vars

---------------------------------------------------------------------------
(* One call of generate_color_palette with the default palette_size, for *)
(* any base colour, under fair random draws                              *)

\* Every Color the constructor accepts.
AllColors ==
    {Color(r, g, b) : r \in 0 .. MaxChannel, g \in 0 .. MaxChannel,
                      b \in 0 .. MaxChannel}

PaletteInit ==
    /\ pc = "idle"
    /\ color \in AllColors
    /\ assigned = FALSE
    /\ contrast_color = None
    /\ call = NoCall
    /\ ret = None
    /\ palette_set = {}
    /\ NoDemo

PaletteNext ==
    \/ GenerateCall(DefaultPaletteSize)
    \/ Jitter
    \/ GenerateReturn

\* The random draws are fair: while some draw of the sign and magnitudes
\* would add a colour to the set, such a draw is not passed over for ever
\* (each of the sixteen draws has probability 1/16 at every iteration).
\* The straight-line code runs on: a loop whose test fails is left.
Fairness ==
    /\ WF_vars(Jitter)
    /\ WF_vars(GenerateReturn)

FairSpec == PaletteInit /\ [][PaletteNext]_vars /\ Fairness

---------------------------------------------------------------------------
(* demo.py.  Each of its four functions runs statement by statement:     *)
(* line names the statement, count the completed iterations of the      *)
(* function's loops; color is the Color variable of the function that    *)
(* is running.  The functions can be called in any order, which includes *)
(* the order of the __main__ block.                                      *)

\* range(4) of print_system_colors and print_grayscale_colors.
GridRange == 0 .. 3

\* color_code = row * 4 + col of print_system_colors.
SystemColorCode(row, col) == row * 4 + col

\* color_code = 232 + row * 4 + col of print_grayscale_colors.
GrayscaleColorCode(row, col) == 232 + row * 4 + col

SystemColorCodes ==
    {SystemColorCode(row, col) : row \in GridRange, col \in GridRange}

GrayscaleColorCodes ==
    {GrayscaleColorCode(row, col) : row \in GridRange, col \in GridRange}

\* row and col of the iteration that follows k completed ones of
\* for row in range(4): for col in range(4).
GridRow(k) == k \div Cardinality(GridRange)

GridCol(k) == k % Cardinality(GridRange)

\* (r, g, b) of the iteration that follows k completed ones of the four
\* loops of print_6x6x6_color_cube: grid_row in range(2), row in range(6),
\* grid_col in range(3), col in range(6).
CubeArgs(k) ==
    LET col      == k % 6
        grid_col == (k \div 6) % 3
        row      == (k \div (6 * 3)) % 6
        grid_row == k \div (6 * 3 * 6)
    IN  <<grid_row * 3 + grid_col, row, col>>

\* The arguments of the constructor calls of base_colors, in order.
BaseColorArgs ==
    << <<0, 2, 2>>, <<2, 0, 2>>, <<2, 2, 0>>, <<5, 0, 0>>,
       <<0, 5, 0>>, <<0, 0, 5>>, <<5, 5, 0>>, <<5, 0, 5>> >>

\* The statements that call the constructor, and the arguments they give.
ConstructLines ==
    {"system.construct", "cube.construct", "grayscale.construct",
     "palettes.base_colors"}

ConstructArgs ==
    CASE line = "cube.construct"       -> CubeArgs(count)
      [] line = "palettes.base_colors" -> BaseColorArgs[count + 1]
      [] OTHER                         -> <<0, 0, 0>>

\* The statements of the form color = AnsiColorManager.Color(...).
BindLines == {"system.construct", "cube.construct", "grayscale.construct"}

\* The statements that evaluate color.ansi() for the text to print.
AnsiLines == {"cube.ansi", "visualize.ansi"}

\* The statements that call print; none gives a percentage.
PrintLines ==
    {"system.print", "cube.print", "grayscale.print", "palettes.print",
     "visualize.print"}

\* The number of iterations of the loops of the function `line` is in.
LoopLength ==
    CASE line = "cube.print"           -> CubeSize
      [] line = "palettes.base_colors" -> Len(BaseColorArgs)
      [] OTHER                         -> Cardinality(GridRange \X GridRange)

\* Whether the statement at `line` ends an iteration of its loop.
EndsIteration ==
    line \in {"system.print", "cube.print", "grayscale.print",
              "palettes.base_colors"}

\* The statement that follows the one at `line` once its call has returned.
NextLine ==
    CASE line = "system.construct"     -> "system.assign"
      [] line = "system.print"         ->
             IF count + 1 < LoopLength THEN "system.construct" ELSE "main"
      [] line = "cube.construct"       -> "cube.ansi"
      [] line = "cube.ansi"            -> "cube.print"
      [] line = "cube.print"           ->
             IF count + 1 < LoopLength THEN "cube.construct" ELSE "main"
      [] line = "grayscale.construct"  -> "grayscale.assign"
      [] line = "grayscale.print"      ->
             IF count + 1 < LoopLength THEN "grayscale.construct" ELSE "main"
      [] line = "palettes.base_colors" ->
             IF count + 1 < LoopLength THEN "palettes.base_colors"
                                   ELSE "palettes.for"
      [] line = "palettes.print"       -> "palettes.generate"
      [] line = "palettes.generate"    -> "visualize.for"
      [] line = "visualize.ansi"       -> "visualize.print"
      [] line = "visualize.print"      -> "visualize.for"

\* The first statements of print_system_colors, print_6x6x6_color_cube
\* and print_grayscale_colors.
GridFunctions ==
    {"system.construct", "cube.construct", "grayscale.construct"}

\* The first statements of the four functions of demo.py.
DemoFunctions == GridFunctions \cup {"palettes.base_colors"}

\* main calls the function of demo.py whose first statement is `first`.
DemoCall(first) ==
    /\ pc = "idle"
    /\ line = "main"
    /\ line' = first
    /\ UNCHANGED <<pc, color, assigned, contrast_color, call, ret,
                   palette_set, count, base_colors, palette, unvisited>>

\* AnsiColorManager.Color(...) of lines 11, 23, 51 and 63-70.
DemoConstruct ==
    /\ line \in ConstructLines
    /\ Construct(ConstructArgs[1], ConstructArgs[2], ConstructArgs[3])

\* color.color_code = color_code of lines 12 and 24.
AssignColorCode ==
    /\ pc = "idle"
    /\ line \in {"system.assign", "grayscale.assign"}
    /\ LET row == GridRow(count)
           col == GridCol(count)
       IN  color' = [color EXCEPT !.color_code =
                         IF line = "system.assign"
                             THEN SystemColorCode(row, col)
                             ELSE GrayscaleColorCode(row, col)]
    /\ assigned' = TRUE
    /\ line' = IF line = "system.assign" THEN "system.print"
                                         ELSE "grayscale.print"
    /\ UNCHANGED <<pc, contrast_color, call, ret, palette_set, count,
                   base_colors, palette, unvisited>>

\* color.ansi() inside the text of lines 38 and 52.
DemoAnsi ==
    /\ line \in AnsiLines
    /\ Ansi

\* color.print(text, end='') of lines 13, 25, 38, 52 and 74.
DemoPrint ==
    /\ line \in PrintLines
    /\ PrintCall(100)

\* AnsiColorManager.generate_color_palette(base_color) of line 76.
DemoGenerate ==
    /\ line = "palettes.generate"
    /\ GenerateCall(DefaultPaletteSize)

\* The call of the statement at `line` has returned: the statement does
\* what it does with the result and the next one is reached; after the
\* last statement of a function its variables are gone.  Line 76 assigns
\* the list to palette and line 77 passes it to
\* visualize_palette_in_terminal, whose loop has all of it to take.  A
\* ValueError is not caught anywhere in demo.py.
DemoStatementDone ==
    /\ StatementDone
    /\ IF ret = ValueError
           THEN /\ line' = "raised"
                /\ UNCHANGED <<color, assigned, count, base_colors, palette,
                               unvisited>>
           ELSE /\ line' = NextLine
                /\ count' = IF ~EndsIteration THEN count
                            ELSE IF count + 1 < LoopLength THEN count + 1
                            ELSE 0
                /\ color' = IF NextLine = "main" THEN None
                            ELSE IF line \in BindLines THEN ret ELSE color
                /\ assigned' = IF NextLine = "main" \/ line \in BindLines
                                   THEN FALSE ELSE assigned
                /\ base_colors' = IF line = "palettes.base_colors"
                                      THEN Append(base_colors, ret)
                                      ELSE base_colors
                /\ palette' = IF line = "palettes.generate"
                                  THEN ret.items ELSE palette
                /\ unvisited' = IF line = "palettes.generate"
                                    THEN ret.items ELSE unvisited

\* for i, base_color in enumerate(base_colors, start=1) of line 73: the
\* next base colour is bound, or demonstrate_palettes returns and its
\* variables are gone.
DemoForBaseColor ==
    /\ pc = "idle"
    /\ line = "palettes.for"
    /\ IF count < Len(base_colors)
           THEN /\ color' = base_colors[count + 1]
                /\ line' = "palettes.print"
                /\ UNCHANGED <<count, base_colors, palette>>
           ELSE /\ color' = None
                /\ line' = "main"
                /\ count' = 0
                /\ base_colors' = <<>>
                /\ palette' = EmptyBag
    /\ assigned' = FALSE
    /\ UNCHANGED <<pc, contrast_color, call, ret, palette_set, unvisited>>

\* for color in palette of line 37 takes the next entry of the list.  The
\* list is known up to the order of its entries, so the next entry is any
\* of those the loop has not had.
DemoForColor ==
    /\ pc = "idle"
    /\ line = "visualize.for"
    /\ \E c \in BagToSet(unvisited) :
           /\ color' = c
           /\ unvisited' = unvisited (-) SetToBag({c})
    /\ assigned' = FALSE
    /\ line' = "visualize.ansi"
    /\ UNCHANGED <<pc, contrast_color, call, ret, palette_set, count,
                   base_colors, palette>>

\* The loop of line 37 has had every entry: visualize_palette_in_terminal
\* returns to demonstrate_palettes, whose base_color and palette are as
\* they were, and the iteration of the loop of line 73 is complete.
DemoForColorEnd ==
    /\ pc = "idle"
    /\ line = "visualize.for"
    /\ BagToSet(unvisited) = {}
    /\ line' = "palettes.for"
    /\ color' = base_colors[count + 1]
    /\ assigned' = FALSE
    /\ count' = count + 1
    /\ UNCHANGED <<pc, contrast_color, call, ret, palette_set, base_colors,
                   palette, unvisited>>

\* print_system_colors, print_6x6x6_color_cube and print_grayscale_colors.
GridsNext ==
    \/ \E first \in GridFunctions : DemoCall(first)
    \/ DemoConstruct
    \/ AssignColorCode
    \/ DemoAnsi
    \/ DemoPrint
    \/ PrintBackground
    \/ PrintForeground
    \/ DemoStatementDone

GridsSpec == Init /\ [][GridsNext]_vars

DemoNext ==
    \/ \E first \in DemoFunctions : DemoCall(first)
    \/ DemoConstruct
    \/ AssignColorCode
    \/ DemoAnsi
    \/ DemoPrint
    \/ PrintBackground
    \/ PrintForeground
    \/ DemoGenerate
    \/ Jitter
    \/ GenerateReturn
    \/ DemoStatementDone
    \/ DemoForBaseColor
    \/ DemoForColor
    \/ DemoForColorEnd

DemoSpec == Init /\ [][DemoNext]_vars

---------------------------------------------------------------------------
(* generate_color_palette called with the default palette_size or with  *)
(* the size of the whole cube                                            *)

CubeInit ==
    /\ pc = "idle"
    /\ color \in {Color(r, g, b) : r \in 0 .. MaxBaseChannel,
                                   g \in 0 .. MaxBaseChannel,
                                   b \in 0 .. MaxBaseChannel}
    /\ assigned = FALSE
    /\ contrast_color = None
    /\ call = NoCall
    /\ ret = None
    /\ palette_set = {}
    /\ NoDemo

CubeNext ==
    \/ \E palette_size \in {DefaultPaletteSize, CubeSize} :
           GenerateCall(palette_size)
    \/ Jitter
    \/ GenerateReturn

CubeSpec == CubeInit /\ [][CubeNext]_vars

---------------------------------------------------------------------------
(* Properties *)

Generated == call.op = "generate_color_palette"

ReturnedList == pc = "returned" /\ Generated /\ ret.type = "list"

Triple(c) == <<c.r, c.g, c.b>>

\* The triples of the entries of a list, given as the bag of its entries.
Triples(items) == {Triple(c) : c \in BagToSet(items)}

\* C1: whenever generate_color_palette returns, the list has exactly
\* palette_size entries and no two of them have the same (r, g, b).
C1_ExactlyPaletteSizeDistinct ==
    ReturnedList =>
        /\ BagCardinality(ret.items) = call.args[1]
        /\ \A c \in BagToSet(ret.items) : CopiesIn(c, ret.items) = 1
        /\ \A c, d \in BagToSet(ret.items) :
               c # d => Triple(c) # Triple(d)

\* A default-size palette has been returned for a base whose deterministic
\* candidates are fewer than 16, so that the jitter loop filled it.
C1_Witness ==
    /\ ReturnedList
    /\ call.args[1] = DefaultPaletteSize
    /\ Cardinality(InitialPaletteSet(call.self)) < DefaultPaletteSize
    /\ BagCardinality(ret.items) = DefaultPaletteSize

\* C2: for palette_size >= 2 the returned list contains base and its
\* complement, whatever the set's enumeration order.
C2_BaseAndComplementReturned ==
    (ReturnedList /\ call.args[1] >= 2) =>
        /\ Triple(call.self) \in Triples(ret.items)
        /\ <<5 - call.self.r, 5 - call.self.g, 5 - call.self.b>>
               \in Triples(ret.items)

\* The six single-channel nudges of a base, as triples.
Nudges(c) ==
    { <<Min(5, c.r + 1), c.g, c.b>>, <<c.r, Min(5, c.g + 1), c.b>>,
      <<c.r, c.g, Min(5, c.b + 1)>>, <<Max(0, c.r - 1), c.g, c.b>>,
      <<c.r, Max(0, c.g - 1), c.b>>, <<c.r, c.g, Max(0, c.b - 1)>> }

\* C3: a palette of 16 contains base, its complement, the three neutrals
\* and the six single-channel nudges of base.
C3_DeterministicCandidatesKept ==
    (ReturnedList /\ call.args[1] = DefaultPaletteSize) =>
        ({ Triple(call.self),
           <<5 - call.self.r, 5 - call.self.g, 5 - call.self.b>>,
           <<5, 5, 5>>, <<1, 1, 1>>, <<3, 3, 3>> } \cup Nudges(call.self))
            \subseteq Triples(ret.items)

\* The scenario of teal: the palette of 16 for (0, 2, 2) has been returned
\* and holds the nudge (1, 2, 2) and the complement (5, 3, 3).
C3_Witness ==
    /\ ReturnedList
    /\ call.args[1] = DefaultPaletteSize
    /\ Triple(call.self) = <<0, 2, 2>>
    /\ {<<1, 2, 2>>, <<5, 3, 3>>} \subseteq Triples(ret.items)

\* C4: under fair draws generate_color_palette(base, 16) leaves the jitter
\* loop and returns, for every base.
C4_DefaultPaletteTerminates ==
    [] ((pc = "jitter" /\ call.args[1] = DefaultPaletteSize)
            => <>(ReturnedList /\ call.args[1] = DefaultPaletteSize))

\* The loop is running for a palette of 16, one colour short, having
\* already added colours by jitter.
C4_Witness ==
    /\ pc = "jitter"
    /\ call.args[1] = DefaultPaletteSize
    /\ Cardinality(palette_set) = DefaultPaletteSize - 1
    /\ palette_set # InitialPaletteSet(call.self)

InCube(c) == c.r \in 0 .. 5 /\ c.g \in 0 .. 5 /\ c.b \in 0 .. 5

\* Every Color the state holds.
ColorsHeld ==
    {v \in {color, contrast_color, ret, call.self} : v.type = "Color"}
        \cup palette_set
        \cup (IF ret.type = "list" THEN BagToSet(ret.items) ELSE {})
        \cup Range(base_colors)
        \cup BagToSet(palette)
        \cup BagToSet(unvisited)

\* C5: Color(r, g, b) raises exactly when a channel is outside 0..5, and
\* every Color produced by the calls has its channels in 0..5.
C5_InvalidChannelIffOutOfRange ==
    /\ (pc = "returned" /\ call.op = "Color") =>
           /\ (ret = ValueError) <=> (\E i \in 1 .. 3 : call.args[i] \notin 0 .. 5)
           /\ (ret # ValueError) =>
                  /\ ret.type = "Color"
                  /\ Triple(ret) = call.args
    /\ \A c \in ColorsHeld : InCube(c)

\* The constructor has just refused a blue of 6 while the caller holds a
\* Color made earlier.
C5_Witness ==
    /\ pc = "returned"
    /\ call.op = "Color"
    /\ call.args = <<5, 0, 6>>
    /\ ret = ValueError
    /\ color.type = "Color"

\* What C6 says of the index i that ansi() returned for the Color c.
IndexRoundTrips(i, c) ==
    /\ i = 16 + 36 * c.r + 6 * c.g + c.b
    /\ i \in 16 .. 231
    /\ <<(i - 16) \div 36, ((i - 16) \div 6) % 6, (i - 16) % 6>> = Triple(c)

\* The receiver of the last call is the Color whose color_code the caller
\* has assigned.
ReceiverAssigned == assigned /\ call.self = color

\* The color_code that print_system_colors and print_grayscale_colors have
\* assigned in the iteration that follows `count` completed ones: the
\* codes go up by one from 0 and from 232.
AssignedCode ==
    IF line = "system.print" THEN count ELSE 232 + count

\* C6: for every constructed Color ansi() is 16 + 36r + 6g + b, lies in
\* 16..231, and decodes back to (r, g, b).
C6_AnsiIndexRoundTrips ==
    (call.op = "ansi") =>
        /\ ret.type = "int"
        /\ IndexRoundTrips(ret.code, call.self)

\* C6 as amended: the same of every Color whose color_code the caller has
\* not assigned since it was constructed; of one whose color_code was
\* assigned, ansi() returns the assigned value.
C6_AnsiIndexRoundTripsUnlessAssigned ==
    (call.op = "ansi") =>
        /\ ret.type = "int"
        /\ ~ReceiverAssigned => IndexRoundTrips(ret.code, call.self)
        /\ ReceiverAssigned => ret.code = AssignedCode

\* Inside print, self.ansi() has returned for a colour whose three
\* channels differ and whose color_code is the constructor's.
C6_Witness ==
    /\ pc = "print_foreground"
    /\ call.op = "ansi"
    /\ ~ReceiverAssigned
    /\ Triple(call.self) = <<1, 4, 2>>
    /\ ret.code = 78

\* C7: get_contrasting_color(100) is (0,0,0) when the luminosity is at
\* least 2.5 and (5,5,5) otherwise.
C7_FullContrastIsBlackOrWhite ==
    (call.op = "get_contrasting_color" /\ call.args = <<100>>) =>
        /\ ret.type = "Color"
        /\ Triple(ret) =
               IF 2126 * call.self.r + 7152 * call.self.g + 722 * call.self.b
                      >= 25000
                   THEN <<0, 0, 0>>
                   ELSE <<5, 5, 5>>

\* Full contrast has been taken of a colour that is light although its red
\* and blue are low: (1, 4, 0) has luminosity 3.07 and turns black.
C7_Witness ==
    /\ pc = "returned"
    /\ call.op = "get_contrasting_color"
    /\ call.args = <<100>>
    /\ Triple(call.self) = <<1, 4, 0>>
    /\ Triple(ret) = <<0, 0, 0>>

\* C8: for every palette_size up to the size of the cube the jitter-fill
\* loop can always reach palette_size colours: while the set is short of
\* palette_size, some draw of the sign and magnitudes adds a colour.
C8_JitterCanAlwaysAddAColor ==
    (pc = "jitter" /\ LoopTest(palette_set, call.args[1])) =>
        \E d \in JitterDraws :
            new_color(call.self, d[1], d[2], d[3], d[4]) \notin palette_set

\* C9: no step of generate_color_palette constructs a Color with a channel
\* outside 0..5: the call never raises ValueError.
C9_GenerateNeverRaises ==
    Generated => ret.type # "ValueError"

\* A palette of 16 has been returned for a base with red 5 and holds a
\* colour only the wrap-around of the jitter gives: red 0 or 1, green and
\* blue both changed.
C9_Witness ==
    /\ ReturnedList
    /\ call.args[1] = DefaultPaletteSize
    /\ call.self.r = 5
    /\ \E c \in BagToSet(ret.items) :
           /\ c.r \in {0, 1}
           /\ c \notin InitialPaletteSet(call.self)

\* The base's hue turned by `turn`, lightness and saturation kept, each
\* component scaled to 0..5 and truncated.
HueNeighbour(c, turn) ==
    LET hls == rgb_to_hls(Rat(c.r, 5), Rat(c.g, 5), Rat(c.b, 5))
        rgb == hls_to_rgb(RMod1(RAdd(hls[1], turn)), hls[2], hls[3])
    IN  << RTrunc(RMul(rgb[1], RInt(5))), RTrunc(RMul(rgb[2], RInt(5))),
           RTrunc(RMul(rgb[3], RInt(5))) >>

\* C10: the two analogous colours generate_color_palette adds are the
\* base's hue neighbours at +1/12 and -1/12 of a turn.
C10_AnalogousAreHueNeighbours ==
    (pc = "jitter") =>
        /\ {Triple(c) : c \in Range(calculate_analogous(call.self))}
               = { HueNeighbour(call.self, Rat(1, 12)),
                   HueNeighbour(call.self, Rat(0 - 1, 12)) }
        /\ { HueNeighbour(call.self, Rat(1, 12)),
             HueNeighbour(call.self, Rat(0 - 1, 12)) }
               \subseteq {Triple(c) : c \in palette_set}

=============================================================================
